---------------------------- MODULE Spec2Model ----------------------------
(***************************************************************************)
(* Model of txnintegration/utils.py: the static test-network generator     *)
(* (StaticNetworkConfig) and the host-resource sampler (StatsCollector /   *)
(* PlatformStats).                                                         *)
(*                                                                         *)
(* Python values are modelled as tagged records [kind, val] so that None,  *)
(* lists, strings, references and raised exceptions can share a variable.  *)
(* Python dicts live in a heap (reference -> record), so that aliasing     *)
(* versus copying of a node dict is observable.                            *)
(***************************************************************************)
EXTENDS Integers, Sequences, FiniteSets, TLC

VARIABLES
    n_mag,          \* StaticNetworkConfig.n_mag
    q_mag,          \* StaticNetworkConfig.q_mag
    keys,           \* StaticNetworkConfig.keys   (list of WIF keys)
    nodes,          \* StaticNetworkConfig.nodes  (list of references to dicts)
    use_quorum,     \* StaticNetworkConfig.use_quorum
    heap,           \* the dict objects: reference -> dict contents
    constructed,    \* TRUE once __init__ has returned an object
    op,             \* name of the last call made
    args,           \* arguments of the last call
    result,         \* what the last call returned or raised
    stdout,         \* what the last call printed
    statslist,      \* StatsCollector.statslist
    cpu_stats,      \* PlatformStats.cpu_stats
    vmem_stats,     \* PlatformStats.vmem_stats
    disk_stats,     \* PlatformStats.disk_stats
    net_stats,      \* PlatformStats.net_stats
    interval_net_bytes_sent,
    interval_net_bytes_recv,
    previous_net_bytes_sent,
    previous_net_bytes_recv,
    ps_constructed, \* TRUE once PlatformStats.__init__ has returned
    reads,          \* what psutil reported at each refresh, oldest first
    ps_op,          \* name of the last sampler call
    ps_result       \* what the last sampler call returned or raised

topoVars == <<n_mag, q_mag, keys, nodes, use_quorum, heap, constructed,
              op, args, result, stdout>>
statsVars == <<statslist, cpu_stats, vmem_stats, disk_stats, net_stats,
               interval_net_bytes_sent, interval_net_bytes_recv,
               previous_net_bytes_sent, previous_net_bytes_recv,
               ps_constructed, reads, ps_op, ps_result>>
vars == <<topoVars, statsVars>>

----------------------------------------------------------------------------
(* Bounds of the model *)

MaxN == 4          \* largest node count passed to the constructor
MaxBytes == 1      \* largest cumulative byte counter psutil reports
MaxRefresh == 2    \* number of get_stats refreshes followed

----------------------------------------------------------------------------
(* Python values *)

None == [kind |-> "None", val |-> <<>>]
PyList(s) == [kind |-> "list", val |-> s]
PyStr(s) == [kind |-> "str", val |-> s]
PyInt(i) == [kind |-> "int", val |-> i]
PyRef(r) == [kind |-> "dict", val |-> r]
PyListRef(s) == [kind |-> "listref", val |-> s]
PyMap(m) == [kind |-> "map", val |-> m]
Raise(e) == [kind |-> "raise", val |-> e]

Range(s) == {s[i] : i \in 1..Len(s)}

\* seq[idx] of a Python list: negative indices count from the end
PyIndexOk(s, idx) == idx >= 0 - Len(s) /\ idx < Len(s)
PyIndex(s, idx) == IF idx >= 0 THEN s[idx + 1] ELSE s[Len(s) + idx + 1]

----------------------------------------------------------------------------
(* StaticNetworkConfig *)

DefaultBaseName == "validator"
DefaultBasePort == 9000
DefaultBaseHttpPort == 8000

NArgs == (0 - 1)..MaxN
QArgs == {None} \cup {PyInt(q) : q \in 0..(MaxN + 1)}
BaseNames == {DefaultBaseName, "node"}
BasePorts == {DefaultBasePort, DefaultBaseHttpPort + 1}
BaseHttpPorts == {DefaultBaseHttpPort}
\* the key lists generate_private_key() can produce for n nodes: two lists
\* of distinct random keys, and one where the random keys coincide
KeyLists(n) ==
    {[i \in 1..n |-> seed \o ToString(i)] : seed \in {"wifA", "wifB"}}
        \cup {[i \in 1..n |-> "wifC"]}
IdxArgs == (0 - (MaxN + 1))..(MaxN + 1)
DflArgs == {None, PyList(<<>>), PyList(<<"peerX">>), PyList(<<"peerX", "peerY">>)}

\* pybitcointools.privtoaddr(decode_privkey(key, 'wif'))
get_address_from_private_key_wif(key) == "addr:" \o key

\* "{0}-{1}".format(base_name, idx)
ShortNameOf(base_name, idx) == base_name \o "-" \o ToString(idx)

NodePort_Fixed(base, idx) == base

\* base_port + idx, base_http_port + idx
NodePort(base, idx) == base + idx

\* the dict built for roster position idx (0-based)
NodeDict(base_name, base_port, base_http_port, idx, wif) ==
    [ShortName  |-> ShortNameOf(base_name, idx),
     Identifier |-> get_address_from_private_key_wif(wif),
     Host       |-> "localhost",
     Port       |-> NodePort(base_port, idx),
     HttpPort   |-> NodePort(base_http_port, idx)]

NodeCountOk(n) == n >= 1

QuorumSizeOk_NoUpper(n, q) == q >= 1

\* assert self.q_mag >= 1; assert self.q_mag <= n
QuorumSizeOk(n, q) == q >= 1 /\ q <= n

QMagOf(n, q) == IF q = None THEN n ELSE q.val

\* a call leaves the sampler alone
TopoCall(name, a) ==
    /\ op' = name
    /\ args' = a
    /\ UNCHANGED statsVars

\* StaticNetworkConfig(n, q, base_name, base_port, base_http_port, use_quorum):
\* the one construction of the object whose later calls are followed
Construct(n, q, base_name, base_port, base_http_port, uq) ==
    /\ op = "none"
    /\ TopoCall("Construct", [n |-> n, q |-> q, base_name |-> base_name,
                              base_port |-> base_port,
                              base_http_port |-> base_http_port,
                              use_quorum |-> uq])
    /\ n_mag' = n
    /\ stdout' = <<>>
    /\ IF ~NodeCountOk(n)
       THEN /\ result' = Raise("AssertionError")
            /\ q_mag' = 0 /\ keys' = <<>> /\ nodes' = <<>> /\ heap' = <<>>
            /\ use_quorum' = FALSE /\ constructed' = FALSE
       ELSE /\ q_mag' = QMagOf(n, q)
            /\ IF ~QuorumSizeOk(n, QMagOf(n, q))
               THEN /\ result' = Raise("AssertionError")
                    /\ keys' = <<>> /\ nodes' = <<>> /\ heap' = <<>>
                    /\ use_quorum' = FALSE /\ constructed' = FALSE
               ELSE \E ks \in KeyLists(n) :
                    /\ keys' = ks
                    /\ heap' = [i \in 1..n |->
                                  NodeDict(base_name, base_port,
                                           base_http_port, i - 1, ks[i])]
                    /\ nodes' = [i \in 1..n |-> i]
                    /\ use_quorum' = uq
                    /\ constructed' = TRUE
                    /\ result' = None

\* get_nodes(): returns the roster list itself
get_nodes ==
    /\ constructed
    /\ TopoCall("get_nodes", <<>>)
    /\ result' = PyListRef(nodes)
    /\ stdout' = <<>>
    /\ UNCHANGED <<n_mag, q_mag, keys, nodes, use_quorum, heap, constructed>>

QuorumIndex_NoWrap(tgt, i) == tgt + i

\* (tgt + i) % (self.n_mag)
QuorumIndex(tgt, i) == (tgt + i) % n_mag

\* the value of self.get_quorum(tgt, dfl) when the dicts are those of h
QuorumValue(h, tgt, dfl) ==
    IF use_quorum
    THEN LET peers == [i \in 1..Len(nodes) |-> h[nodes[i]].ShortName]
         IN IF Len(peers) # Cardinality(Range(peers))
            THEN Raise("AssertionError")
            ELSE IF \E i \in 0..(q_mag - 1) :
                        ~PyIndexOk(peers, QuorumIndex(tgt, i))
                 THEN Raise("IndexError")
                 ELSE PyList([k \in 1..q_mag |->
                                PyIndex(peers, QuorumIndex(tgt, k - 1))])
    ELSE None

\* get_quorum(tgt, dfl)
get_quorum(tgt, dfl) ==
    /\ constructed
    /\ TopoCall("get_quorum", [tgt |-> tgt, dfl |-> dfl])
    /\ result' = QuorumValue(heap, tgt, dfl)
    /\ stdout' = <<>>
    /\ UNCHANGED <<n_mag, q_mag, keys, nodes, use_quorum, heap, constructed>>

\* get_node(idx): self.nodes[idx]
get_node(idx) ==
    /\ constructed
    /\ TopoCall("get_node", [idx |-> idx])
    /\ result' = IF PyIndexOk(nodes, idx) THEN PyRef(PyIndex(nodes, idx))
                                          ELSE Raise("IndexError")
    /\ stdout' = <<>>
    /\ UNCHANGED <<n_mag, q_mag, keys, nodes, use_quorum, heap, constructed>>

\* get_key(idx): self.keys[idx]
get_key(idx) ==
    /\ constructed
    /\ TopoCall("get_key", [idx |-> idx])
    /\ result' = IF PyIndexOk(keys, idx) THEN PyStr(PyIndex(keys, idx))
                                         ELSE Raise("IndexError")
    /\ stdout' = <<>>
    /\ UNCHANGED <<n_mag, q_mag, keys, nodes, use_quorum, heap, constructed>>

NewRef(h) == Len(h) + 1

DictCopy_Alias(h, r) == [heap |-> h, ref |-> r]

\* nd.copy(): a new dict object with the same items
DictCopy(h, r) == [heap |-> Append(h, h[r]), ref |-> NewRef(h)]

\* x[key] = value on the dict object r
SetItem(h, r, key, value) == [h EXCEPT ![r] = (key :> value) @@ h[r]]

\* the loop of print_quorum_schema from roster position i (1-based) on
RECURSIVE SchemaLoop(_, _, _)
SchemaLoop(h, ret, i) ==
    IF i > Len(nodes)
    THEN [heap |-> h, ret |-> ret, raised |-> None]
    ELSE LET c  == DictCopy(h, nodes[i])
             h1 == SetItem(c.heap, c.ref, "SigningKey", PyStr(keys[i]))
             qv == QuorumValue(h1, i - 1, None)
             h2 == SetItem(h1, c.ref, "Quorum", qv)
         IN IF qv.kind = "raise"
            THEN [heap |-> h1, ret |-> ret, raised |-> qv]
            ELSE SchemaLoop(h2, Append(ret, c.ref), i + 1)

\* the dict objects still referenced once the locals of a call are gone
Collect(h) == [r \in 1..Len(nodes) |-> h[r]]

\* print_quorum_schema()
print_quorum_schema ==
    /\ constructed
    /\ TopoCall("print_quorum_schema", <<>>)
    /\ LET out == SchemaLoop(heap, <<>>, 1)
       IN /\ heap' = Collect(out.heap)
          /\ IF out.raised = None
             THEN /\ result' = None
                  /\ stdout' = [i \in 1..Len(out.ret) |-> out.heap[out.ret[i]]]
             ELSE /\ result' = out.raised
                  /\ stdout' = <<>>
    /\ UNCHANGED <<n_mag, q_mag, keys, nodes, use_quorum, constructed>>

----------------------------------------------------------------------------
(* StatsCollector / PlatformStats *)

\* a namedtuple instance: type name, _fields and the values in field order
Tuple(name, fields, values) ==
    [name |-> name, fields |-> fields, values |-> values]

\* CpuStats = collections.namedtuple("scpu", 'percent user_time ...')
CpuStats(percent, user_time, system_time, idle_time) ==
    Tuple("scpu", <<"percent", "user_time", "system_time", "idle_time">>,
          <<percent, user_time, system_time, idle_time>>)

\* what psutil.cpu_percent / psutil.cpu_times can report
CpuReadings == {[percent |-> 5, user |-> 10, system |-> 20, idle |-> 30],
                [percent |-> 7, user |-> 11, system |-> 21, idle |-> 31]}

\* what psutil.virtual_memory() can report (leading fields of svmem)
VmemReadings ==
    {Tuple("svmem", <<"total", "available", "percent", "used", "free">>,
           <<64, 40, 37, 24, 40>>),
     Tuple("svmem", <<"total", "available", "percent", "used", "free">>,
           <<64, 32, 50, 32, 32>>)}

\* what psutil.disk_io_counters() can report (leading fields of sdiskio)
DiskReadings ==
    {Tuple("sdiskio",
           <<"read_count", "write_count", "read_bytes", "write_bytes">>,
           <<3, 4, 300, 400>>)}

\* what psutil.net_io_counters() can report (leading fields of snetio)
NetReading(sent, recv) ==
    Tuple("snetio",
          <<"bytes_sent", "bytes_recv", "packets_sent", "packets_recv">>,
          <<sent, recv, 1, 1>>)

ByteCounters == 0..MaxBytes

\* stat.<field> of a namedtuple
Field(stat, f) ==
    stat.values[CHOOSE i \in 1..Len(stat.fields) : stat.fields[i] = f]

\* stat._asdict()
AsDict(stat) == [f \in Range(stat.fields) |-> Field(stat, f)]

IntervalDelta_Cumulative(current, previous) == current

\* self.net_stats.bytes_sent - self.previous_net_bytes_sent
IntervalDelta(current, previous) == current - previous

\* a sampler call leaves the network configuration alone
StatsCall(name) ==
    /\ ps_op' = name
    /\ UNCHANGED topoVars

\* the body of get_stats, given what psutil reports and the counters it
\* compares against
Refresh(cpu, vmem, disk, net, prev_sent, prev_recv) ==
    /\ cpu_stats' = CpuStats(cpu.percent, cpu.user, cpu.system, cpu.idle)
    /\ vmem_stats' = vmem
    /\ disk_stats' = disk
    /\ net_stats' = net
    /\ statslist' = <<cpu_stats', vmem_stats', disk_stats', net_stats'>>
    /\ interval_net_bytes_sent' =
           IntervalDelta(Field(net_stats', "bytes_sent"), prev_sent)
    /\ interval_net_bytes_recv' =
           IntervalDelta(Field(net_stats', "bytes_recv"), prev_recv)
    /\ previous_net_bytes_sent' = Field(net_stats', "bytes_sent")
    /\ previous_net_bytes_recv' = Field(net_stats', "bytes_recv")
    /\ reads' = Append(reads, [cpu |-> CpuStats(cpu.percent, cpu.user,
                                                cpu.system, cpu.idle),
                               vmem |-> vmem, disk |-> disk, net |-> net])

\* PlatformStats(): zeroes the counters, then makes the first refresh
PlatformStatsInit(cpu, vmem, disk, net) ==
    /\ ~ps_constructed
    /\ StatsCall("PlatformStats")
    /\ Refresh(cpu, vmem, disk, net, 0, 0)
    /\ ps_constructed' = TRUE
    /\ ps_result' = None

\* get_stats()
get_stats(cpu, vmem, disk, net) ==
    /\ ps_constructed
    /\ Len(reads) < MaxRefresh
    /\ StatsCall("get_stats")
    /\ Refresh(cpu, vmem, disk, net,
               previous_net_bytes_sent, previous_net_bytes_recv)
    /\ ps_result' = None
    /\ UNCHANGED ps_constructed

\* a getter changes no attribute of the sampler
StatsGetter(name, value) ==
    /\ ps_constructed
    /\ StatsCall(name)
    /\ ps_result' = value
    /\ UNCHANGED <<statslist, cpu_stats, vmem_stats, disk_stats, net_stats,
                   interval_net_bytes_sent, interval_net_bytes_recv,
                   previous_net_bytes_sent, previous_net_bytes_recv,
                   ps_constructed, reads>>

\* the names list built by get_names from position i of statslist on
RECURSIVE NamesLoop(_, _)
NamesLoop(stats, i) ==
    IF i > Len(stats) THEN <<>>
    ELSE [k \in 1..Len(stats[i].fields) |->
            stats[i].name \o "_" \o stats[i].fields[k]]
         \o NamesLoop(stats, i + 1)

\* the values list built by get_data from position i of statslist on
RECURSIVE DataLoop(_, _)
DataLoop(stats, i) ==
    IF i > Len(stats) THEN <<>>
    ELSE stats[i].values \o DataLoop(stats, i + 1)

DictEntry_Own(stat, cpu) == AsDict(stat)

\* the value get_data_as_dict stores under type(stat).__name__
DictEntry(stat, cpu) == AsDict(cpu)

\* the dictionary built by get_data_as_dict from position i of statslist on,
\* starting from p_stats
RECURSIVE DictLoop(_, _, _)
DictLoop(stats, i, p_stats) ==
    IF i > Len(stats) THEN p_stats
    ELSE DictLoop(stats, i + 1,
                  (stats[i].name :> DictEntry(stats[i], cpu_stats)) @@ p_stats)

get_names == StatsGetter("get_names", PyList(NamesLoop(statslist, 1)))

get_data == StatsGetter("get_data", PyList(DataLoop(statslist, 1)))

get_data_as_dict ==
    StatsGetter("get_data_as_dict", PyMap(DictLoop(statslist, 1, <<>>)))

----------------------------------------------------------------------------

TopoInit ==
    /\ n_mag = 0 /\ q_mag = 0 /\ keys = <<>> /\ nodes = <<>>
    /\ use_quorum = FALSE /\ heap = <<>> /\ constructed = FALSE
    /\ op = "none" /\ args = <<>> /\ result = None /\ stdout = <<>>

StatsInit ==
    /\ statslist = <<>>
    /\ cpu_stats = None /\ vmem_stats = None
    /\ disk_stats = None /\ net_stats = None
    /\ interval_net_bytes_sent = 0 /\ interval_net_bytes_recv = 0
    /\ previous_net_bytes_sent = 0 /\ previous_net_bytes_recv = 0
    /\ ps_constructed = FALSE /\ reads = <<>>
    /\ ps_op = "none" /\ ps_result = None

Init == TopoInit /\ StatsInit

Next ==
    \/ \E n \in NArgs, q \in QArgs, bn \in BaseNames, bp \in BasePorts,
          bh \in BaseHttpPorts, uq \in BOOLEAN :
            Construct(n, q, bn, bp, bh, uq)
    \/ get_nodes
    \/ \E tgt \in IdxArgs, dfl \in DflArgs : get_quorum(tgt, dfl)
    \/ \E idx \in IdxArgs : get_node(idx)
    \/ \E idx \in IdxArgs : get_key(idx)
    \/ print_quorum_schema

Spec == Init /\ [][Next]_vars

StatsNext ==
    \/ \E cpu \in CpuReadings, vmem \in VmemReadings, disk \in DiskReadings,
          sent \in ByteCounters, recv \in ByteCounters :
            PlatformStatsInit(cpu, vmem, disk, NetReading(sent, recv))
    \/ \E cpu \in CpuReadings, vmem \in VmemReadings, disk \in DiskReadings,
          sent \in ByteCounters, recv \in ByteCounters :
            get_stats(cpu, vmem, disk, NetReading(sent, recv))
    \/ get_names
    \/ get_data
    \/ get_data_as_dict

StatsSpec == Init /\ [][StatsNext]_vars

----------------------------------------------------------------------------
(* Properties of StaticNetworkConfig *)

\* the arguments of the construction are valid: n >= 1 and 1 <= q <= n
ValidArgs(a) == a.n >= 1 /\ QMagOf(a.n, a.q) >= 1 /\ QMagOf(a.n, a.q) <= a.n

\* the dict of roster position i (1-based)
NodeAt(i) == heap[nodes[i]]

\* C1: a construction with n >= 1 and 1 <= q <= n (q defaulting to n) yields
\* n nodes and n keys, index-aligned, node idx being named
\* "<base_name>-<idx>" with Port base_port + idx and HttpPort
\* base_http_port + idx; short names are pairwise distinct and so are ports.
C1_RosterShape ==
    (op = "Construct" /\ ValidArgs(args)) =>
        /\ constructed
        /\ n_mag = args.n
        /\ q_mag = QMagOf(args.n, args.q)
        /\ Len(nodes) = args.n
        /\ Len(keys) = args.n
        /\ \A i \in 1..args.n :
              /\ NodeAt(i).ShortName
                    = args.base_name \o "-" \o ToString(i - 1)
              /\ NodeAt(i).Port = args.base_port + (i - 1)
              /\ NodeAt(i).HttpPort = args.base_http_port + (i - 1)
              /\ NodeAt(i).Identifier
                    = get_address_from_private_key_wif(keys[i])
        /\ \A i, j \in 1..args.n :
              i # j => /\ NodeAt(i).ShortName # NodeAt(j).ShortName
                       /\ NodeAt(i).Port # NodeAt(j).Port
                       /\ NodeAt(i).HttpPort # NodeAt(j).HttpPort

C1_Witness ==
    /\ op = "Construct" /\ constructed
    /\ args.n >= 2 /\ args.q = None
    /\ Len(nodes) = args.n

\* C2: with use_quorum set and a target in [0, n), get_quorum returns q
\* entries, entry i being the short name of node (tgt + i) mod n; the first
\* is the target's own name, all are roster names, none is repeated.
C2_QuorumWindow ==
    (op = "get_quorum" /\ use_quorum /\ args.tgt \in 0..(n_mag - 1)) =>
        /\ result.kind = "list"
        /\ Len(result.val) = q_mag
        /\ \A i \in 0..(q_mag - 1) :
              result.val[i + 1]
                 = NodeAt(((args.tgt + i) % n_mag) + 1).ShortName
        /\ result.val[1] = NodeAt(args.tgt + 1).ShortName
        /\ Range(result.val) \subseteq {NodeAt(k).ShortName : k \in 1..n_mag}
        /\ Cardinality(Range(result.val)) = Len(result.val)
        /\ (n_mag = 4 /\ q_mag = 2 /\ args.tgt = 2
              /\ NodeAt(1).ShortName = "validator-0")
           => result.val = <<"validator-2", "validator-3">>

C2_Witness ==
    /\ op = "get_quorum" /\ use_quorum
    /\ args.tgt \in 0..(n_mag - 1)
    /\ q_mag >= 2
    /\ args.tgt + q_mag > n_mag
    /\ result.kind = "list"

\* C3: without use_quorum, get_quorum(tgt, dfl) returns the supplied dfl
\* unchanged.
C3_FallbackIdentity ==
    (op = "get_quorum" /\ ~use_quorum /\ args.dfl # None) =>
        result = args.dfl

\* C4: with use_quorum set, the quorums of any two nodes share a node.
C4_QuorumIntersection ==
    (constructed /\ use_quorum) =>
        \A i, j \in 0..(n_mag - 1) :
            LET qi == QuorumValue(heap, i, None)
                qj == QuorumValue(heap, j, None)
            IN /\ qi.kind = "list"
               /\ qj.kind = "list"
               /\ Range(qi.val) \cap Range(qj.val) # {}

\* C5: a construction with n < 1, q < 1 or q > n fails (the assertion error
\* is the invalid-configuration error), with no key generated and no roster
\* entry built.
C5_InvalidConfigRejected ==
    (op = "Construct" /\ ~ValidArgs(args)) =>
        /\ result = Raise("AssertionError")
        /\ ~constructed
        /\ keys = <<>>
        /\ nodes = <<>>
        /\ heap = <<>>

C5_Witness ==
    /\ op = "Construct"
    /\ args.n >= 1 /\ args.q # None /\ args.q.val > args.n
    /\ result.kind = "raise"

\* C6: get_node(idx) and get_key(idx) return the idx-th entry for idx in
\* [0, n) and fail with an index error for every other idx.
C6_AccessorRange ==
    (op \in {"get_node", "get_key"}) =>
        IF args.idx \in 0..(n_mag - 1)
        THEN /\ op = "get_node" => result = PyRef(nodes[args.idx + 1])
             /\ op = "get_key" => result = PyStr(keys[args.idx + 1])
        ELSE result = Raise("IndexError")

\* C7: get_quorum fails with an index error whenever its target is outside
\* [0, n), in either mode.
C7_QuorumTargetRange ==
    (op = "get_quorum" /\ args.tgt \notin 0..(n_mag - 1)) =>
        result = Raise("IndexError")

\* what the object describes: sizes, mode, keys and every roster entry
Topology ==
    [n_mag |-> n_mag, q_mag |-> q_mag, use_quorum |-> use_quorum,
     keys |-> keys, nodes |-> nodes,
     dicts |-> [i \in 1..Len(nodes) |-> NodeAt(i)]]

AccessorOps ==
    {"get_nodes", "get_node", "get_key", "get_quorum", "print_quorum_schema"}

\* C10: no call of get_nodes, get_node, get_key, get_quorum or
\* print_quorum_schema changes n, q, the mode flag, the key list or any
\* roster entry; the SigningKey and Quorum items go to copies only.
C10_ReadOnly ==
    [][op' \in AccessorOps => Topology' = Topology]_vars

C10_Witness ==
    /\ op = "print_quorum_schema"
    /\ n_mag >= 2
    /\ Len(stdout) = n_mag
    /\ stdout[2].SigningKey = PyStr(keys[2])
    /\ "SigningKey" \notin DOMAIN NodeAt(2)

----------------------------------------------------------------------------
(* Properties of PlatformStats *)

\* the cumulative counter f observed at refresh k, 0 before the first
Counter(k, f) == IF k = 0 THEN 0 ELSE Field(reads[k].net, f)

\* C8: after the k-th refresh the interval counters are c_k - c_(k-1) with
\* c_0 = 0, the stored previous counters are c_k, and statslist is the four
\* snapshots of that refresh.
C8_IntervalDelta ==
    LET k == Len(reads)
    IN k >= 1 =>
        /\ interval_net_bytes_sent
              = Counter(k, "bytes_sent") - Counter(k - 1, "bytes_sent")
        /\ interval_net_bytes_recv
              = Counter(k, "bytes_recv") - Counter(k - 1, "bytes_recv")
        /\ previous_net_bytes_sent = Counter(k, "bytes_sent")
        /\ previous_net_bytes_recv = Counter(k, "bytes_recv")
        /\ statslist = <<reads[k].cpu, reads[k].vmem,
                         reads[k].disk, reads[k].net>>

C8_Witness ==
    /\ ps_op = "get_stats"
    /\ Len(reads) = 2
    /\ Counter(1, "bytes_sent") = 1
    /\ Counter(2, "bytes_sent") = 0
    /\ interval_net_bytes_sent = 0 - 1
    /\ reads[1].cpu # reads[2].cpu

\* C9: get_data_as_dict stores, under each group's name, that group's own
\* field/value mapping.
C9_DictPerGroup ==
    (ps_op = "get_data_as_dict") =>
        /\ ps_result.kind = "map"
        /\ \A i \in 1..Len(statslist) :
              /\ statslist[i].name \in DOMAIN ps_result.val
              /\ ps_result.val[statslist[i].name] = AsDict(statslist[i])

=============================================================================
